---------------------------- MODULE Spec2Model ----------------------------
(***************************************************************************)
(* A model of wizcompiler (src/wizardry/wizcompiler/compiler.go).          *)
(*                                                                         *)
(* Compile turns a spellbook (page name -> flat, levelled rule list) into  *)
(* Go source: per page, treeify builds the rule forest and emitNode walks  *)
(* it, emitting statements over a fixed set of scratch variables (gf, ra,  *)
(* rb, rc, rA, ka, kb, kc, d0..df) and forward gotos to per-node failure   *)
(* labels.  The model keeps both halves: the emitter produces a sequence   *)
(* of statements (records), and the matcher is the execution of those      *)
(* statements on a buffer, one statement per step, with a call stack for   *)
(* Use rules.  A Go run-time panic (index out of range, slice bounds out   *)
(* of range, integer divide by zero) is the outcome "panic".               *)
(*                                                                         *)
(* Integers: TLC's integers are 32 bit, the program's are 64 bit.  Every   *)
(* buffer byte, offset and literal of the model is small, so no value of   *)
(* the model reaches 2^31 and no 64-bit operation of the program wraps on  *)
(* the inputs the model draws.                                             *)
(***************************************************************************)
EXTENDS Integers, Sequences, FiniteSets, TLC

(***************************************************************************)
(* Bounds of the model                                                     *)
(***************************************************************************)
\* longest buffer the read-primitive specification draws
MaxBuf == 9
\* number of children drawn under the root of a default-group page
MaxKids == 3
\* deepest stack of nested Identify calls before the Go run time gives up
MaxDepth == 3
\* longest flat rule list handed to treeify on its own
MaxRules == 4
\* deepest rule of the pages compiled for their default markers
MaxLevel == 17

(***************************************************************************)
(* wizparser data (the parser package is not part of src/; the fields are  *)
(* the ones compiler.go reads)                                             *)
(***************************************************************************)
NoIndirect ==
  [IsRelative |-> FALSE, ByteWidth |-> 1, Endianness |-> "l",
   OffsetAddress |-> 0, OffsetAdjustmentType |-> "none",
   OffsetAdjustmentIsRelative |-> FALSE, OffsetAdjustmentValue |-> 0]

\* a direct offset: a literal, optionally relative to the global offset
DirectOffset(n, rel) ==
  [OffsetType |-> "Direct", IsRelative |-> rel, Direct |-> n,
   Indirect |-> NoIndirect]

\* an indirect offset (w.e at addr, adjusted), optionally relative
IndirectOffset(w, e, addr, adjType, adjRel, adjVal, indRel, rel) ==
  [OffsetType |-> "Indirect", IsRelative |-> rel, Direct |-> 0,
   Indirect |-> [IsRelative |-> indRel, ByteWidth |-> w, Endianness |-> e,
                 OffsetAddress |-> addr, OffsetAdjustmentType |-> adjType,
                 OffsetAdjustmentIsRelative |-> adjRel,
                 OffsetAdjustmentValue |-> adjVal]]

\* Offset.Equals: structural equality of the two offsets
OffsetEquals(a, b) == a = b

\* Endianness.MaybeSwapped: the opposite byte order when swapped
MaybeSwapped(en, swapEndian) ==
  IF swapEndian THEN (IF en = "l" THEN "b" ELSE "l") ELSE en

NoKind ==
  [Family |-> "Name", ByteWidth |-> 1, Endianness |-> "l",
   IntegerTest |-> "eq", MatchAny |-> FALSE, DoAnd |-> FALSE, AndValue |-> 0,
   AdjustmentType |-> "none", AdjustmentValue |-> 0, Value |-> 0,
   Pattern |-> <<>>, Negate |-> FALSE, MaxLen |-> 0,
   Page |-> "", SwapEndian |-> FALSE]

IntegerKind(w, e, test, v) ==
  [NoKind EXCEPT !.Family = "Integer", !.ByteWidth = w, !.Endianness = e,
                 !.IntegerTest = test, !.Value = v]
AnyIntegerKind(w, e) ==
  [NoKind EXCEPT !.Family = "Integer", !.ByteWidth = w, !.Endianness = e,
                 !.MatchAny = TRUE]
StringKind(pat, neg) ==
  [NoKind EXCEPT !.Family = "String", !.Pattern = pat, !.Negate = neg]
SearchKind(pat, maxLen) ==
  [NoKind EXCEPT !.Family = "Search", !.Pattern = pat, !.MaxLen = maxLen]
UseKind(page, swapEndian) ==
  [NoKind EXCEPT !.Family = "Use", !.Page = page, !.SwapEndian = swapEndian]
NameKind == NoKind
ClearKind == [NoKind EXCEPT !.Family = "Clear"]
DefaultKind == [NoKind EXCEPT !.Family = "Default"]

Rule(level, offset, kind, desc) ==
  [Level |-> level, Offset |-> offset, Kind |-> kind, Description |-> desc]

(***************************************************************************)
(* The offset expression model (Expression, BinaryOp, NumberLiteral,       *)
(* VariableAccess, Fold)                                                   *)
(***************************************************************************)
NumberLiteral(n) ==
  [tag |-> "num", n |-> n, name |-> "", op |-> "", lhs |-> <<>>, rhs |-> <<>>]
VariableAccess(name) ==
  [tag |-> "var", n |-> 0, name |-> name, op |-> "", lhs |-> <<>>, rhs |-> <<>>]
BinaryOp(lhs, op, rhs) ==
  [tag |-> "bin", n |-> 0, name |-> "", op |-> op, lhs |-> lhs, rhs |-> rhs]

\* Go's integer division truncates toward zero
GoDiv(a, b) ==
  IF (a >= 0) = (b > 0) THEN (IF a >= 0 THEN a ELSE -a) \div (IF b > 0 THEN b ELSE -b)
  ELSE -((IF a >= 0 THEN a ELSE -a) \div (IF b > 0 THEN b ELSE -b))

Arith(op, a, b) ==
  CASE op = "add" -> a + b
    [] op = "sub" -> a - b
    [] op = "mul" -> a * b
    [] op = "div" -> GoDiv(a, b)

RECURSIVE Fold(_)
\* fold both operands; two literals are evaluated at compile time
Fold(ex) ==
  IF ex.tag # "bin" THEN ex
  ELSE LET l == Fold(ex.lhs)
           r == Fold(ex.rhs)
       IN IF l.tag = "num" /\ r.tag = "num" /\ ~(ex.op = "div" /\ r.n = 0)
          THEN NumberLiteral(Arith(ex.op, l.n, r.n))
          ELSE BinaryOp(l, ex.op, r)

(***************************************************************************)
(* The read primitives f<width><endianness>                                *)
(***************************************************************************)
RECURSIVE Pow256(_)
Pow256(k) == IF k = 0 THEN 1 ELSE 256 * Pow256(k - 1)

RECURSIVE LittleUint(_, _, _)
\* binary.LittleEndian.Uint<8w>(tb[off:]): byte i has weight 256^i
LittleUint(tb, off, w) ==
  IF w = 0 THEN 0
  ELSE LittleUint(tb, off, w - 1)
       + (IF tb[off + w] = 0 THEN 0 ELSE tb[off + w] * Pow256(w - 1))

RECURSIVE BigUint(_, _, _)
\* binary.BigEndian.Uint<8w>(tb[off:]): the first byte is the most significant
BigUint(tb, off, w) ==
  IF w = 0 THEN 0
  ELSE (IF tb[off + 1] = 0 THEN 0 ELSE tb[off + 1] * Pow256(w - 1))
       + BigUint(tb, off + 1, w - 1)

\* f<w><e>(tb, off): (value, ok), or a run-time panic.  off is the Go
\* (0-based) offset; tb is a sequence, so Go's tb[off] is tb[off + 1].
ReadFn(w, e, tb, off) ==
  IF Len(tb) < off + w
  THEN [v |-> 0, ok |-> FALSE, panic |-> FALSE]
  ELSE IF off < 0
       THEN \* tb[off] / tb[off:] with a negative index
            [v |-> 0, ok |-> FALSE, panic |-> TRUE]
       ELSE [v |-> IF e = "b" THEN BigUint(tb, off, w) ELSE LittleUint(tb, off, w),
             ok |-> TRUE, panic |-> FALSE]

\* endiannessString: the letter that selects the read primitive
endiannessString(en, swapEndian) ==
  IF MaybeSwapped(en, swapEndian) = "b" THEN "b" ELSE "l"

(***************************************************************************)
(* The external pattern tests                                              *)
(***************************************************************************)
MatchesAt(tb, off, pat) ==
  /\ off >= 0
  /\ off + Len(pat) <= Len(tb)
  /\ \A i \in 1..Len(pat) : tb[off + i] = pat[i]

\* wizardry.StringTest: the signed match position, negative for no match
StringTest(tb, off, pat) ==
  IF MatchesAt(tb, off, pat) THEN Len(pat) ELSE -1

\* wizardry.SearchTest: the first match within maxLen positions of off,
\* relative to off, negative for no match
SearchTest(tb, off, maxLen, pat) ==
  LET hits == {k \in 0..maxLen : MatchesAt(tb, off + k, pat)}
  IN IF hits = {} THEN -1
     ELSE CHOOSE k \in hits : \A j \in hits : k <= j

(***************************************************************************)
(* treeify (lines 506-529)                                                 *)
(***************************************************************************)
\* prevSiblingNode == nil
NilNode == -1

\* the state of treeify before its first rule.  Nodes are named by their
\* id; rule[id + 1] and children[id + 1] are the fields of node id.
EmptyTree ==
  [rootNodes |-> <<>>, nodeStack |-> <<>>, rule |-> <<>>, children |-> <<>>,
   idSeed |-> 0, panic |-> FALSE]

\* treeifyRule that pushes the node without cutting the stack back to the
\* rule's level: append(nodeStack, node)
treeifyRuleNoCut(ts, rule) ==
  LET id == ts.idSeed
      withNode == [ts EXCEPT !.rule = Append(@, rule),
                             !.children = Append(@, <<>>),
                             !.idSeed = @ + 1]
  IN IF rule.Level > 0
     THEN IF rule.Level - 1 >= Len(ts.nodeStack)
          THEN [withNode EXCEPT !.panic = TRUE]
          ELSE LET parent == ts.nodeStack[rule.Level]
               IN [withNode EXCEPT
                     !.children[parent + 1] = Append(@, id),
                     !.nodeStack = Append(ts.nodeStack, id)]
     ELSE [withNode EXCEPT !.rootNodes = Append(@, id),
                           !.nodeStack = Append(ts.nodeStack, id)]

\* treeifyRule that keeps the entries of nodeStack above the rule's level
\* and finds its parent among them: the node overwrites nodeStack[Level]
treeifyRuleStale(ts, rule) ==
  LET id == ts.idSeed
      withNode == [ts EXCEPT !.rule = Append(@, rule),
                             !.children = Append(@, <<>>),
                             !.idSeed = @ + 1]
      placed == IF rule.Level + 1 <= Len(ts.nodeStack)
                THEN [ts.nodeStack EXCEPT ![rule.Level + 1] = id]
                ELSE Append(ts.nodeStack, id)
  IN IF rule.Level > 0
     THEN IF rule.Level - 1 >= Len(ts.nodeStack)
          THEN [withNode EXCEPT !.panic = TRUE]
          ELSE LET parent == ts.nodeStack[rule.Level]
               IN [withNode EXCEPT
                     !.children[parent + 1] = Append(@, id),
                     !.nodeStack = placed]
     ELSE [withNode EXCEPT !.rootNodes = Append(@, id),
                           !.nodeStack = placed]

\* one iteration of treeify's loop.  nodeStack[rule.Level-1] panics (index
\* out of range) when the stack is no longer than Level-1.
treeifyRule(ts, rule) ==
  LET id == ts.idSeed
      withNode == [ts EXCEPT !.rule = Append(@, rule),
                             !.children = Append(@, <<>>),
                             !.idSeed = @ + 1]
  IN IF rule.Level > 0
     THEN IF rule.Level - 1 >= Len(ts.nodeStack)
          THEN [withNode EXCEPT !.panic = TRUE]
          ELSE LET parent == ts.nodeStack[rule.Level]
               IN [withNode EXCEPT
                     !.children[parent + 1] = Append(@, id),
                     !.nodeStack = Append(SubSeq(ts.nodeStack, 1, rule.Level), id)]
     ELSE [withNode EXCEPT !.rootNodes = Append(@, id),
                           !.nodeStack = <<id>>]

(***************************************************************************)
(* The emitted statements                                                  *)
(***************************************************************************)
RECURSIVE Hex(_)
\* fmt.Sprintf("%x", n): the base-16 digits of n, most significant first
Hex(n) == IF n < 16 THEN <<n>> ELSE Append(Hex(n \div 16), n % 16)

\* failLabel: "f" followed by the hexadecimal node id
failLabel(id) == Hex(id)

\* fmt.Sprintf("d%x", rule.Level); the empty name is <<>>
markerName(level) == Hex(level)

\* the sixteen markers every entry point declares, d0..df
DeclaredMarkers == {<<i>> : i \in 0..15}

\* a statement of the generated function.  node is the id of the rule node
\* whose emitNode call emitted it (the "// rule.Line" comment of the source).
Stmt(op, node) ==
  [op |-> op, node |-> node, reg |-> "", w |-> 1, e |-> "l",
   x |-> NumberLiteral(0), label |-> <<>>, kind |-> NoKind, d |-> <<>>,
   val |-> FALSE, s |-> "", page |-> "", swap |-> FALSE]

\* whether any child of the node has a relative address
emitGlobalOffsetOf(T, id) ==
  \E i \in 1..Len(T.children[id + 1]) :
     LET cof == T.rule[T.children[id + 1][i] + 1].Offset
     IN cof.IsRelative \/ (cof.OffsetType = "Indirect" /\ cof.Indirect.IsRelative)

\* reuseOffset: the previous node's Offset equals this node's
reuseOffsetOf(T, id, prevSiblingNode) ==
  /\ prevSiblingNode # NilNode
  /\ OffsetEquals(T.rule[prevSiblingNode + 1].Offset, T.rule[id + 1].Offset)

\* reuseSibling: equal Offset, and an Integer rule of the same byte width
reuseSiblingOf(T, id, prevSiblingNode) ==
  /\ prevSiblingNode # NilNode
  /\ OffsetEquals(T.rule[prevSiblingNode + 1].Offset, T.rule[id + 1].Offset)
  /\ T.rule[prevSiblingNode + 1].Kind.Family = "Integer"
  /\ T.rule[prevSiblingNode + 1].Kind.ByteWidth = T.rule[id + 1].Kind.ByteWidth

\* the address the pointer is read from: "N" or "(gf + N)"
offsetAddressOf(indirect) ==
  IF indirect.IsRelative
  THEN BinaryOp(VariableAccess("gf"), "add", NumberLiteral(indirect.OffsetAddress))
  ELSE NumberLiteral(indirect.OffsetAddress)

\* the unfolded address expression of a rule (lines 204-282)
offOf(rule) ==
  LET indirect == rule.Offset.Indirect
      adj == IF indirect.OffsetAdjustmentIsRelative
             THEN VariableAccess("i8(rb)")
             ELSE NumberLiteral(indirect.OffsetAdjustmentValue)
      base == IF rule.Offset.OffsetType = "Direct"
              THEN BinaryOp(VariableAccess("po"), "add", NumberLiteral(rule.Offset.Direct))
              ELSE IF indirect.OffsetAdjustmentType \in {"add", "sub", "mul", "div"}
                   THEN BinaryOp(VariableAccess("i8(ra)"),
                                 indirect.OffsetAdjustmentType, adj)
                   ELSE VariableAccess("i8(ra)")
  IN IF rule.Offset.IsRelative
     THEN BinaryOp(base, "add", VariableAccess("gf"))
     ELSE base

\* the statements that resolve an indirect address (lines 218-244)
emitIndirect(rule, id, reuseOffset, swapEndian) ==
  LET indirect == rule.Offset.Indirect
      en == endiannessString(indirect.Endianness, swapEndian)
      readA == [Stmt("read", id) EXCEPT !.reg = "a", !.w = indirect.ByteWidth,
                  !.e = en, !.x = offsetAddressOf(indirect)]
      ifKa == [Stmt("ifnot", id) EXCEPT !.reg = "a", !.label = failLabel(id)]
      readB == [Stmt("read", id) EXCEPT !.reg = "b", !.w = indirect.ByteWidth,
                  !.e = en,
                  !.x = BinaryOp(offsetAddressOf(indirect), "add",
                                 NumberLiteral(indirect.OffsetAdjustmentValue))]
      ifKb == [Stmt("ifnot", id) EXCEPT !.reg = "b", !.label = failLabel(id)]
  IN (IF reuseOffset THEN <<>> ELSE <<readA>>)
     \o <<ifKa>>
     \o (IF indirect.OffsetAdjustmentIsRelative THEN <<readB, ifKb>> ELSE <<>>)

\* "gf = <value>"
emitGf(id, value) == <<[Stmt("setgf", id) EXCEPT !.x = Fold(value)]>>

\* the kind-specific statements (lines 286-424)
emitKind(rule, id, off, defaultMarker, emitGlobalOffset, reuseSibling, swapEndian) ==
  LET k == rule.Kind
      fam == k.Family
      lbl == failLabel(id)
  IN CASE fam = "Integer" ->
            (IF k.MatchAny THEN <<>>
             ELSE (IF reuseSibling THEN <<>>
                   ELSE <<[Stmt("read", id) EXCEPT !.reg = "c", !.w = k.ByteWidth,
                             !.e = endiannessString(k.Endianness, swapEndian),
                             !.x = off]>>)
                  \o <<[Stmt("inttest", id) EXCEPT !.kind = k, !.label = lbl]>>)
            \o (IF emitGlobalOffset
                THEN emitGf(id, BinaryOp(off, "add", NumberLiteral(k.ByteWidth)))
                ELSE <<>>)
       [] fam = "String" ->
            <<[Stmt("gt", id) EXCEPT !.x = off, !.kind = k],
              [Stmt("ifrA", id) EXCEPT !.val = k.Negate, !.label = lbl]>>
            \o (IF emitGlobalOffset
                THEN emitGf(id, BinaryOp(off, "add", VariableAccess("rA")))
                ELSE <<>>)
       [] fam = "Search" ->
            <<[Stmt("ht", id) EXCEPT !.x = off, !.kind = k],
              [Stmt("ifrA", id) EXCEPT !.val = FALSE, !.label = lbl]>>
            \o (IF emitGlobalOffset
                THEN emitGf(id, BinaryOp(off, "add",
                                  BinaryOp(VariableAccess("rA"), "add",
                                           NumberLiteral(Len(k.Pattern)))))
                ELSE <<>>)
       [] fam = "Use" ->
            <<[Stmt("call", id) EXCEPT !.page = k.Page, !.swap = k.SwapEndian,
                 !.x = off],
              Stmt("mss", id)>>
       [] fam = "Name" -> <<>>
       [] fam = "Clear" ->
            IF defaultMarker = <<>> THEN <<Stmt("abort", id)>>
            ELSE <<[Stmt("setd", id) EXCEPT !.d = defaultMarker, !.val = FALSE]>>
       [] fam = "Default" ->
            IF defaultMarker = <<>> THEN <<Stmt("abort", id)>>
            ELSE <<[Stmt("ifd", id) EXCEPT !.d = defaultMarker, !.label = lbl]>>
                 \o (IF emitGlobalOffset
                     THEN <<[Stmt("setgf", id) EXCEPT !.x = off]>>
                     ELSE <<>>)
       [] OTHER -> <<[Stmt("goto", id) EXCEPT !.label = lbl]>>

\* canFail that is set for every node: every block ends in a label
canFailOfAlways(rule) == TRUE

\* canFail: whether a jump to the node's failure label was emitted
canFailOf(rule) ==
  \/ rule.Offset.OffsetType = "Indirect"
  \/ rule.Kind.Family = "Integer" /\ ~rule.Kind.MatchAny
  \/ rule.Kind.Family \in {"String", "Search", "Default"}
  \/ rule.Kind.Family \notin {"Integer", "String", "Search", "Use", "Name",
                              "Clear", "Default"}

\* childDefaultMarker that looks at the first child only
childDefaultMarkerOfFirst(T, id) ==
  IF Len(T.children[id + 1]) > 0
     /\ T.rule[T.children[id + 1][1] + 1].Kind.Family = "Default"
  THEN markerName(T.rule[id + 1].Level)
  ELSE <<>>

\* childDefaultMarker (lines 434-444): d<Level> when a child is a Default
childDefaultMarkerOf(T, id) ==
  IF \E i \in 1..Len(T.children[id + 1]) :
        T.rule[T.children[id + 1][i] + 1].Kind.Family = "Default"
  THEN markerName(T.rule[id + 1].Level)
  ELSE <<>>

\* the node that emitNode's children loop passes as the first child's
\* previous sibling (line 446)
firstPrevSibling(id) == id

\* "m(<description>)" (lines 429-431)
emitDescription(rule, id) ==
  IF rule.Description # ""
  THEN <<[Stmt("m", id) EXCEPT !.s = rule.Description]>> ELSE <<>>

\* "<childDefaultMarker> = false" before the children (line 441)
emitMarkerInit(id, childDefaultMarker) ==
  IF childDefaultMarker # <<>>
  THEN <<[Stmt("setd", id) EXCEPT !.d = childDefaultMarker, !.val = FALSE]>>
  ELSE <<>>

\* emitFinalize without the assignment: the marker is never set
emitFinalizeNever(id, defaultMarker) == <<>>

\* "<defaultMarker> = true" after the children (lines 453-455)
emitFinalize(id, defaultMarker) ==
  IF defaultMarker # <<>>
  THEN <<[Stmt("setd", id) EXCEPT !.d = defaultMarker, !.val = TRUE]>>
  ELSE <<>>

\* "<failLabel>:" (lines 457-459)
emitFailLabel(rule, id) ==
  IF canFailOf(rule)
  THEN <<[Stmt("label", id) EXCEPT !.label = failLabel(id)]>> ELSE <<>>

\* emitOwn with the description emitted before the kind's test
emitOwnDescriptionFirst(address, test, description) ==
  address \o description \o test

\* the node's own statements, in emission order: address resolution, the
\* kind's test, the description (lines 204-431)
emitOwn(address, test, description) == address \o test \o description

\* the node's block, in emission order (lines 433-459)
emitBlock(own, markerInit, children, finalize, label) ==
  own \o markerInit \o children \o finalize \o label

RECURSIVE emitNode(_, _, _, _, _, _)
RECURSIVE emitChildren(_, _, _, _, _, _, _)

\* the children loop (lines 446-450): child i with its previous sibling
emitChildren(T, kids, i, marker, prevSibling, swapEndian, elide) ==
  IF i > Len(kids) THEN <<>>
  ELSE emitNode(T, kids[i], marker, prevSibling, swapEndian, elide)
       \o emitChildren(T, kids, i + 1, marker, kids[i], swapEndian, elide)

\* emitNode (lines 176-460).  elide is TRUE in the compiler; FALSE gives the
\* matcher that performs every read afresh.
emitNode(T, id, defaultMarker, prevSiblingNode, swapEndian, elide) ==
  LET rule == T.rule[id + 1]
      kids == T.children[id + 1]
      emitGlobalOffset == emitGlobalOffsetOf(T, id)
      reuseOffset == elide /\ reuseOffsetOf(T, id, prevSiblingNode)
      reuseSibling == elide /\ reuseSiblingOf(T, id, prevSiblingNode)
      off == Fold(offOf(rule))
      childDefaultMarker == childDefaultMarkerOf(T, id)
  IN emitBlock(
       emitOwn(IF rule.Offset.OffsetType = "Indirect"
               THEN emitIndirect(rule, id, reuseOffset, swapEndian) ELSE <<>>,
               emitKind(rule, id, off, defaultMarker, emitGlobalOffset,
                        reuseSibling, swapEndian),
               emitDescription(rule, id)),
       emitMarkerInit(id, childDefaultMarker),
       emitChildren(T, kids, 1, childDefaultMarker, firstPrevSibling(id),
                    swapEndian, elide),
       emitFinalize(id, defaultMarker),
       emitFailLabel(rule, id))

RECURSIVE emitRoots(_, _, _, _)
\* the root loop (lines 462-464): emitNode(node, "", nil)
emitRoots(T, i, swapEndian, elide) ==
  IF i > Len(T.rootNodes) THEN <<>>
  ELSE emitNode(T, T.rootNodes[i], <<>>, NilNode, swapEndian, elide)
       \o emitRoots(T, i + 1, swapEndian, elide)

\* emitEntry whose swapped entry point also reverses the byte patterns of
\* its String and Search tests
emitEntrySwapsPatterns(T, swapEndian, elide) ==
  LET body == emitRoots(T, 1, swapEndian, elide) \o <<Stmt("ret", NilNode)>>
      reversed(pat) == [i \in 1..Len(pat) |-> pat[Len(pat) + 1 - i]]
  IN [i \in 1..Len(body) |->
        IF swapEndian /\ body[i].op \in {"gt", "ht"}
        THEN [body[i] EXCEPT !.kind.Pattern = reversed(@)]
        ELSE body[i]]

\* the body of one entry point (lines 150-468), ending in "return out, nil"
emitEntry(T, swapEndian, elide) ==
  emitRoots(T, 1, swapEndian, elide) \o <<Stmt("ret", NilNode)>>

(***************************************************************************)
(* The generated matcher: one invocation of Identify<Page> is a frame      *)
(* holding the locals declared at lines 152-165                            *)
(***************************************************************************)
NewFrame(page, swap, po) ==
  [page |-> page, swap |-> swap, po |-> po, pc |-> 1,
   out |-> <<>>, ss |-> <<>>, gf |-> 0, ra |-> 0, rb |-> 0, rc |-> 0, rA |-> 0,
   ka |-> FALSE, kb |-> FALSE, kc |-> FALSE,
   d |-> [n \in DeclaredMarkers |-> FALSE]]

Top(stk) == stk[Len(stk)]
SetTop(stk, fr) == [stk EXCEPT ![Len(stk)] = fr]

\* the value of a variable of the generated function
VarValue(name, fr) ==
  CASE name = "po" -> fr.po
    [] name = "gf" -> fr.gf
    [] name = "i8(ra)" -> fr.ra
    [] name = "i8(rb)" -> fr.rb
    [] name = "rA" -> fr.rA

RECURSIVE Eval(_, _)
\* the value of an emitted address expression; an integer division by
\* zero is a run-time panic
Eval(ex, fr) ==
  CASE ex.tag = "num" -> [v |-> ex.n, panic |-> FALSE]
    [] ex.tag = "var" -> [v |-> VarValue(ex.name, fr), panic |-> FALSE]
    [] OTHER ->
         LET l == Eval(ex.lhs, fr)
             r == Eval(ex.rhs, fr)
         IN IF l.panic \/ r.panic \/ (ex.op = "div" /\ r.v = 0)
            THEN [v |-> 0, panic |-> TRUE]
            ELSE [v |-> Arith(ex.op, l.v, r.v), panic |-> FALSE]

\* the index of the statement "<label>:" in a function body (0: none)
LabelIndex(body, label) ==
  IF \E i \in 1..Len(body) : body[i].op = "label" /\ body[i].label = label
  THEN CHOOSE i \in 1..Len(body) : body[i].op = "label" /\ body[i].label = label
  ELSE 0

RECURSIVE BitAnd(_, _)
BitAnd(a, b) ==
  IF a = 0 \/ b = 0 THEN 0
  ELSE 2 * BitAnd(a \div 2, b \div 2) + (IF a % 2 = 1 /\ b % 2 = 1 THEN 1 ELSE 0)

\* i8(i<w>(v)): truncate to w bytes and sign-extend.  The model's values
\* stay below 2^31, so they are their own i4 and i8.
ToSigned(w, v) ==
  LET m == Pow256(IF w <= 2 THEN w ELSE 2)
  IN IF w > 2 THEN v
     ELSE IF (v % m) >= m \div 2 THEN (v % m) - m ELSE v % m

\* the left-hand side of the emitted integer comparison (lines 310-341):
\* the sign conversion is innermost, then the mask, then the adjustment
IntegerLhs(ik, rc) ==
  LET conv == IF ik.IntegerTest \in {"lt", "gt"} THEN ToSigned(ik.ByteWidth, rc)
              ELSE rc
      \* a negative operand of & is its two's complement; the masks of the
      \* model fit the rule's width
      masked == IF ik.DoAnd
                THEN BitAnd(IF conv < 0 THEN conv + Pow256(ik.ByteWidth) ELSE conv,
                            ik.AndValue)
                ELSE conv
  IN IF ik.AdjustmentType \in {"add", "sub", "mul", "div"}
     THEN Arith(ik.AdjustmentType, masked, ik.AdjustmentValue)
     ELSE masked

\* "kc && (lhs op rhs)" (line 345)
IntegerRuleTest(ik, rc, kc) ==
  /\ kc
  /\ LET lhs == IntegerLhs(ik, rc)
     IN CASE ik.IntegerTest = "eq" -> lhs = ik.Value
          [] ik.IntegerTest = "ne" -> lhs # ik.Value
          [] ik.IntegerTest = "lt" -> lhs < ik.Value
          [] ik.IntegerTest = "gt" -> lhs > ik.Value

Machine(stk, status, out) == [stack |-> stk, status |-> status, result |-> out]

\* the frame after a statement that falls through
Advance(fr) == [fr EXCEPT !.pc = @ + 1]
\* the frame after "goto <label>"
Goto(fr, body, label) == [fr EXCEPT !.pc = LabelIndex(body, label)]

\* "r?, k? = f<w><e>(tb, <x>)"
ExecRead(st, stk, tb) ==
  LET fr == Top(stk)
      a == Eval(st.x, fr)
      r == ReadFn(st.w, st.e, tb, a.v)
  IN IF a.panic \/ r.panic THEN Machine(stk, "panic", <<>>)
     ELSE Machine(SetTop(stk,
            CASE st.reg = "a" -> [Advance(fr) EXCEPT !.ra = r.v, !.ka = r.ok]
              [] st.reg = "b" -> [Advance(fr) EXCEPT !.rb = r.v, !.kb = r.ok]
              [] st.reg = "c" -> [Advance(fr) EXCEPT !.rc = r.v, !.kc = r.ok]),
            "run", <<>>)

\* "if !k? { goto <label> }"
ExecIfNot(st, stk, body) ==
  LET fr == Top(stk)
      k == IF st.reg = "a" THEN fr.ka ELSE fr.kb
  IN Machine(SetTop(stk, IF k THEN Advance(fr) ELSE Goto(fr, body, st.label)),
             "run", <<>>)

\* "if !(kc && (lhs op rhs)) { goto <label> }"
ExecIntTest(st, stk, body) ==
  LET fr == Top(stk)
  IN Machine(SetTop(stk, IF IntegerRuleTest(st.kind, fr.rc, fr.kc)
                         THEN Advance(fr) ELSE Goto(fr, body, st.label)),
             "run", <<>>)

\* "gf = <x>"
ExecSetGf(st, stk) ==
  LET fr == Top(stk)
      a == Eval(st.x, fr)
  IN IF a.panic THEN Machine(stk, "panic", <<>>)
     ELSE Machine(SetTop(stk, [Advance(fr) EXCEPT !.gf = a.v]), "run", <<>>)

\* "rA = i8(gt(tb, int(<x>), pattern, flags))"
ExecStringTest(st, stk, tb) ==
  LET fr == Top(stk)
      a == Eval(st.x, fr)
  IN IF a.panic THEN Machine(stk, "panic", <<>>)
     ELSE Machine(SetTop(stk, [Advance(fr) EXCEPT
                                 !.rA = StringTest(tb, a.v, st.kind.Pattern)]),
                  "run", <<>>)

\* "rA = i8(ht(tb, int(<x>), maxLen, pattern))"
ExecSearchTest(st, stk, tb) ==
  LET fr == Top(stk)
      a == Eval(st.x, fr)
  IN IF a.panic THEN Machine(stk, "panic", <<>>)
     ELSE Machine(SetTop(stk, [Advance(fr) EXCEPT
                    !.rA = SearchTest(tb, a.v, st.kind.MaxLen, st.kind.Pattern)]),
                  "run", <<>>)

\* "if rA < 0 { goto <label> }", or "if rA >= 0 ..." for a negated string
ExecIfRA(st, stk, body) ==
  LET fr == Top(stk)
      jump == IF st.val THEN fr.rA >= 0 ELSE fr.rA < 0
  IN Machine(SetTop(stk, IF jump THEN Goto(fr, body, st.label) ELSE Advance(fr)),
             "run", <<>>)

\* "ss, _ = Identify<Page>(tb, <x>)": the call.  A goroutine's stack is
\* finite; the nesting the model follows is MaxDepth.
ExecCall(st, stk) ==
  LET fr == Top(stk)
      a == Eval(st.x, fr)
  IN IF a.panic THEN Machine(stk, "panic", <<>>)
     ELSE IF Len(stk) >= MaxDepth THEN Machine(stk, "overflow", <<>>)
     ELSE Machine(Append(stk, NewFrame(st.page, st.swap, a.v)), "run", <<>>)

\* "return out, nil": the caller's ss receives the labels and the caller
\* moves past the call; the outermost return ends the invocation
ExecReturn(stk) ==
  LET fr == Top(stk)
  IN IF Len(stk) = 1 THEN Machine(stk, "done", fr.out)
     ELSE LET caller == stk[Len(stk) - 1]
          IN Machine(SetTop(SubSeq(stk, 1, Len(stk) - 1),
                            [Advance(caller) EXCEPT !.ss = fr.out]),
                     "run", <<>>)

\* "m(ss...)"
ExecAppendSs(stk) ==
  LET fr == Top(stk)
  IN Machine(SetTop(stk, [Advance(fr) EXCEPT !.out = fr.out \o fr.ss]), "run", <<>>)

\* "m(<description>)"
ExecDescribe(st, stk) ==
  LET fr == Top(stk)
  IN Machine(SetTop(stk, [Advance(fr) EXCEPT !.out = Append(fr.out, st.s)]),
             "run", <<>>)

\* "d? = true" / "d? = false"
ExecSetMarker(st, stk) ==
  LET fr == Top(stk)
  IN Machine(SetTop(stk, [Advance(fr) EXCEPT !.d[st.d] = st.val]), "run", <<>>)

\* "if d? { goto <label> }"
ExecIfMarker(st, stk, body) ==
  LET fr == Top(stk)
  IN Machine(SetTop(stk, IF fr.d[st.d] THEN Goto(fr, body, st.label)
                         ELSE Advance(fr)),
             "run", <<>>)

\* "goto <label>" (an unhandled kind)
ExecGoto(st, stk, body) ==
  Machine(SetTop(stk, Goto(Top(stk), body, st.label)), "run", <<>>)

\* "<label>:" is no statement; control passes it
ExecLabel(stk) == Machine(SetTop(stk, Advance(Top(stk))), "run", <<>>)

\* the function body the top frame executes, and its current statement
BodyOf(prog, stk) == prog[<<Top(stk).page, Top(stk).swap>>]
CurStmt(prog, stk) == BodyOf(prog, stk)[Top(stk).pc]

\* one statement of the running matcher
StepMachine(prog, tb, stk) ==
  LET st == CurStmt(prog, stk)
      body == BodyOf(prog, stk)
  IN CASE st.op = "read" -> ExecRead(st, stk, tb)
       [] st.op = "ifnot" -> ExecIfNot(st, stk, body)
       [] st.op = "inttest" -> ExecIntTest(st, stk, body)
       [] st.op = "setgf" -> ExecSetGf(st, stk)
       [] st.op = "gt" -> ExecStringTest(st, stk, tb)
       [] st.op = "ht" -> ExecSearchTest(st, stk, tb)
       [] st.op = "ifrA" -> ExecIfRA(st, stk, body)
       [] st.op = "call" -> ExecCall(st, stk)
       [] st.op = "ret" -> ExecReturn(stk)
       [] st.op = "mss" -> ExecAppendSs(stk)
       [] st.op = "m" -> ExecDescribe(st, stk)
       [] st.op = "setd" -> ExecSetMarker(st, stk)
       [] st.op = "ifd" -> ExecIfMarker(st, stk, body)
       [] st.op = "goto" -> ExecGoto(st, stk, body)
       [] st.op = "label" -> ExecLabel(stk)

RECURSIVE RunMachine(_, _, _)
\* the invocation run to its end: the machine when it has stopped
RunMachine(prog, tb, mach) ==
  IF mach.status # "run" THEN mach
  ELSE RunMachine(prog, tb, StepMachine(prog, tb, mach.stack))

\* Identify<page>[__Swapped](tb, po) as a function of its arguments
Identify(prog, page, swap, tb, po) ==
  RunMachine(prog, tb, Machine(<<NewFrame(page, swap, po)>>, "run", <<>>))

(***************************************************************************)
(* The inputs the model draws: spellbooks, buffers and base offsets        *)
(***************************************************************************)
\* the descriptions of the rules of a page, by position in the rule list
MainLabels == <<"n0", "n1", "n2", "n3", "n4", "n5">>
SubLabels == <<"s0", "s1", "s2", "s3", "s4", "s5">>

\* the page names in the order sort.Strings gives them (lines 138-142)
PageOrder == <<"main", "sub">>

\* the body of a rule: everything but its level and its description
Body(offset, kind, described) ==
  [Offset |-> offset, Kind |-> kind, described |-> described]

RECURSIVE LevelSeqs(_, _)
\* the level sequences of n rules that start at 0, stay at lo or deeper
\* afterwards and never descend by more than one level at a time
LevelSeqs(n, lo) ==
  IF n = 1 THEN {<<0>>}
  ELSE UNION {{Append(lv, l) : l \in lo..(lv[Len(lv)] + 1)} : lv \in LevelSeqs(n - 1, lo)}

\* the rule list with the given levels and bodies
PageOf(lv, bodies, labels) ==
  [i \in 1..Len(lv) |->
     Rule(lv[i], bodies[i].Offset, bodies[i].Kind,
          IF bodies[i].described THEN labels[i] ELSE "")]

\* every page of n rules over a pool of bodies
PagesOver(pool, n, lo, labels) ==
  {PageOf(lv, b, labels) : lv \in LevelSeqs(n, lo), b \in [1..n -> pool]}

\* the same, below a fixed first rule
PagesUnder(root, pool, n, labels) ==
  {PageOf(lv, [i \in 1..n |-> IF i = 1 THEN root ELSE b[i - 1]], labels) :
     lv \in LevelSeqs(n, 1), b \in [1..(n - 1) -> pool]}

Input(book, bufs, pos, swaps) ==
  [book |-> book, bufs |-> bufs, pos |-> pos, swaps |-> swaps]

At(n) == DirectOffset(n, FALSE)
RelAt(n) == DirectOffset(n, TRUE)

\* a byte test that passes on every buffer of the model, and one that fails
PassBody == Body(At(0), IntegerKind(1, "l", "eq", 1), TRUE)
FailBody == Body(At(0), IntegerKind(1, "l", "eq", 2), TRUE)

\* default groups: a Name root and up to MaxKids rules below it
DefaultPool ==
  {Body(At(0), DefaultKind, TRUE), Body(At(0), ClearKind, TRUE), PassBody, FailBody,
   Body(IndirectOffset(1, "l", 7, "none", FALSE, 0, FALSE, FALSE), DefaultKind, TRUE)}
DefaultInputs ==
  {Input([page \in {"main"} |-> pg], {<<1>>}, {0}, {FALSE}) :
     pg \in UNION {PagesUnder(Body(At(0), NameKind, TRUE), DefaultPool, n, MainLabels) :
                     n \in 2..(MaxKids + 1)}}

\* offset propagation: a parent at a direct offset and a relative child
ParentPool ==
  UNION {{Body(At(a), IntegerKind(1, "l", "eq", 1), TRUE),
          Body(At(a), AnyIntegerKind(2, "l"), TRUE),
          Body(At(a), StringKind(<<1>>, FALSE), TRUE),
          Body(At(a), SearchKind(<<2>>, 2), TRUE)} : a \in {0, 1}}
RelChildPool ==
  {Body(RelAt(c), IntegerKind(1, "l", "ne", 7), TRUE) : c \in {0, 1}}
OffsetInputs ==
  {Input([page \in {"main"} |->
            PageOf(<<0, 1>>, <<parent, child>>, MainLabels)],
         {<<1, 1, 2, 1, 1, 1>>}, {0, 1}, {FALSE}) :
     parent \in ParentPool, child \in RelChildPool}

\* read reuse: integer rules that share offsets, at every tree shape
ReusePool ==
  {Body(At(0), IntegerKind(1, "l", "eq", 1), TRUE),
   Body(At(0), AnyIntegerKind(1, "l"), TRUE),
   Body(At(0), IntegerKind(2, "l", "eq", 513), TRUE),
   Body(At(0), IntegerKind(2, "b", "eq", 258), TRUE),
   Body(At(1), IntegerKind(1, "l", "eq", 2), TRUE),
   Body(IndirectOffset(1, "l", 0, "none", FALSE, 0, FALSE, FALSE),
        IntegerKind(1, "l", "eq", 2), TRUE),
   Body(IndirectOffset(1, "l", 1, "none", FALSE, 0, FALSE, FALSE),
        AnyIntegerKind(1, "l"), TRUE)}
ReuseInputs ==
  {Input([page \in {"main"} |-> pg], {<<1, 2, 3>>}, {0}, {FALSE}) :
     pg \in UNION {PagesOver(ReusePool, n, 0, MainLabels) : n \in 1..3}}

\* failures: reads out of range, failed tests, unhandled kinds, and
\* addresses computed from the buffer
FailPool ==
  {PassBody, FailBody,
   Body(At(0), [NoKind EXCEPT !.Family = "Other"], TRUE),
   Body(At(0), StringKind(<<9>>, FALSE), TRUE),
   Body(IndirectOffset(1, "l", 7, "none", FALSE, 0, FALSE, FALSE),
        IntegerKind(1, "l", "eq", 1), TRUE),
   Body(IndirectOffset(1, "l", 0, "sub", FALSE, 2, FALSE, FALSE),
        IntegerKind(1, "l", "eq", 1), TRUE),
   Body(IndirectOffset(1, "l", 0, "div", TRUE, 1, FALSE, FALSE),
        IntegerKind(1, "l", "eq", 1), TRUE)}
FailInputs ==
  {Input([page \in {"main"} |-> pg], {<<1, 0>>, <<1, 1>>}, {0}, {FALSE}) :
     pg \in UNION {PagesOver(FailPool, n, 0, MainLabels) : n \in 1..3}}

\* delegation: a page with a Use rule and the page it delegates to
UsePages ==
  {PageOf(<<0, 0, lv>>,
          <<Body(At(0), NameKind, TRUE),
            Body(At(a), UseKind("sub", sw), described),
            PassBody>>, MainLabels) :
     lv \in {0, 1}, a \in {0, 1}, sw \in BOOLEAN, described \in BOOLEAN}
SubPages ==
  {PageOf(<<0, 0>>, <<b, Body(At(0), NameKind, TRUE)>>, SubLabels) :
     b \in {PassBody, FailBody, Body(At(0), IntegerKind(2, "l", "eq", 257), TRUE),
            Body(At(0), IntegerKind(2, "l", "eq", 513), TRUE)}}
UseInputs ==
  {Input([page \in {"main", "sub"} |-> IF page = "main" THEN mp ELSE sp],
         {<<1, 1, 2>>}, {0}, BOOLEAN) : mp \in UsePages, sp \in SubPages}

\* byte patterns: String and Search rules at direct and indirect offsets
PatternOffsets ==
  {At(0), At(1),
   IndirectOffset(1, "l", 0, "none", FALSE, 0, FALSE, FALSE),
   IndirectOffset(2, "l", 0, "none", FALSE, 0, FALSE, FALSE),
   IndirectOffset(2, "b", 1, "add", FALSE, 1, FALSE, FALSE)}
PatternPool ==
  UNION {{Body(o, StringKind(<<1, 0>>, FALSE), TRUE),
          Body(o, StringKind(<<1>>, TRUE), TRUE),
          Body(o, SearchKind(<<2>>, 1), TRUE)} : o \in PatternOffsets}
PatternInputs ==
  {Input([page \in {"main"} |-> pg], {<<1, 0, 1, 2>>, <<0, 1, 0>>}, {0}, BOOLEAN) :
     pg \in UNION {PagesOver(PatternPool, n, 0, MainLabels) : n \in 1..2}}

\* recursion: a page that delegates to itself, and two pages that delegate
\* to each other, at the caller's offset or one byte further
RecursivePages(target, labels) ==
  {PageOf(<<0, lv>>, <<PassBody, Body(At(a), UseKind(target, FALSE), TRUE)>>, labels) :
     lv \in {0, 1}, a \in {0, 1}}
RecursiveInputs ==
  {Input([page \in {"main"} |-> mp], {<<1, 1, 2>>}, {0}, {FALSE}) :
     mp \in RecursivePages("main", MainLabels)}
  \cup
  {Input([page \in {"main", "sub"} |-> IF page = "main" THEN mp ELSE sp],
         {<<1, 1, 2>>}, {0}, {FALSE}) :
     mp \in RecursivePages("sub", MainLabels), sp \in RecursivePages("main", SubLabels)}

\* the global offset among siblings: a rule with two or three relative
\* descendants, the first child with or without a relative child of its own
GfInputs ==
  {Input([page \in {"main"} |-> PageOf(lv, <<PassBody, b[1], b[2], b[3]>>, MainLabels)],
         {<<1, 1, 2, 1, 1, 1>>}, {0, 1}, {FALSE}) :
     lv \in {<<0, 1, 1, 1>>, <<0, 1, 2, 1>>, <<0, 1, 2, 2>>},
     b \in [1..3 -> RelChildPool]}

\* marker scopes: Default and Clear rules at the root level and below rules
\* that have no Default child
ScopeInputs ==
  {Input([page \in {"main"} |-> pg], {<<1>>}, {0}, {FALSE}) :
     pg \in UNION {PagesOver({Body(At(0), DefaultKind, TRUE),
                              Body(At(0), ClearKind, TRUE), PassBody},
                             n, 0, MainLabels) : n \in 1..2}}

Inputs ==
  DefaultInputs \cup OffsetInputs \cup ReuseInputs \cup FailInputs
  \cup UseInputs \cup PatternInputs \cup RecursiveInputs \cup GfInputs
  \cup ScopeInputs

(***************************************************************************)
(* State                                                                   *)
(***************************************************************************)
VARIABLES
  inp,      \* the spellbook handed to Compile, and the arguments to draw
  phase,    \* "treeify", "emit", "abort" (Compile), "ready", "run",
            \* "done", "panic", "overflow" (the matcher), "read" (a read)
  pageIx,   \* the page Compile is at, an index into the sorted page names
  ts,       \* treeify's locals: rootNodes, nodeStack, the nodes, idSeed
  trees,    \* page -> the forest treeify returned
  prog,     \* <<page, swapEndian>> -> the emitted body of that entry point
  tb,       \* the buffer of the invocation
  stack,    \* the frames of the nested Identify calls, outermost first
  result,   \* the labels the outermost call returned
  visited,  \* history: <<depth, pc>> of the statements executed by the
            \* frames now on the stack
  rd        \* a single call of a read primitive: arguments and outcome

vars == <<inp, phase, pageIx, ts, trees, prog, tb, stack, result, visited, rd>>

NoRead == [w |-> 1, e |-> "l", tb |-> <<>>, off |-> 0, done |-> FALSE,
           v |-> 0, ok |-> FALSE, panic |-> FALSE]

\* the pages of the book, sorted
Pages(book) == SelectSeq(PageOrder, LAMBDA pg : pg \in DOMAIN book)
CurPage == Pages(inp.book)[pageIx]

InitWith(input) ==
  /\ inp = input
  /\ phase = "treeify"
  /\ pageIx = 1
  /\ ts = EmptyTree
  /\ trees = [pg \in DOMAIN input.book |-> EmptyTree]
  /\ prog = [k \in (DOMAIN input.book) \X BOOLEAN |-> <<>>]
  /\ tb = <<>>
  /\ stack = <<>>
  /\ result = <<>>
  /\ visited = {}
  /\ rd = NoRead

Init == \E input \in Inputs : InitWith(input)

(***************************************************************************)
(* Compile                                                                 *)
(***************************************************************************)
\* one iteration of treeify's loop over the rules of the current page
TreeifyStep ==
  /\ phase = "treeify"
  /\ ts.idSeed < Len(inp.book[CurPage])
  /\ ts' = treeifyRule(ts, inp.book[CurPage][ts.idSeed + 1])
  /\ phase' = IF ts'.panic THEN "abort" ELSE "treeify"
  /\ UNCHANGED <<inp, pageIx, trees, prog, tb, stack, result, visited, rd>>

\* treeify returns rootNodes (line 528)
TreeifyReturn ==
  /\ phase = "treeify"
  /\ ts.idSeed = Len(inp.book[CurPage])
  /\ trees' = [trees EXCEPT ![CurPage] = ts]
  /\ phase' = "emit"
  /\ UNCHANGED <<inp, pageIx, ts, prog, tb, stack, result, visited, rd>>

\* the two entry points of the current page (lines 147-470); a panic of
\* emitNode aborts Compile
EmitPage ==
  /\ phase = "emit"
  /\ LET native == emitEntry(trees[CurPage], FALSE, TRUE)
         swapped == emitEntry(trees[CurPage], TRUE, TRUE)
         aborted == \E i \in 1..Len(native) : native[i].op = "abort"
     IN /\ prog' = [prog EXCEPT ![<<CurPage, FALSE>>] = native,
                                ![<<CurPage, TRUE>>] = swapped]
        /\ phase' = IF aborted THEN "abort"
                    ELSE IF pageIx < Len(Pages(inp.book)) THEN "treeify"
                    ELSE "ready"
        /\ pageIx' = IF ~aborted /\ pageIx < Len(Pages(inp.book))
                     THEN pageIx + 1 ELSE pageIx
        /\ ts' = IF ~aborted /\ pageIx < Len(Pages(inp.book))
                 THEN EmptyTree ELSE ts
  /\ UNCHANGED <<inp, trees, tb, stack, result, visited, rd>>

(***************************************************************************)
(* The matcher                                                             *)
(***************************************************************************)
\* a caller invokes IdentifyMain or IdentifyMain__Swapped
Invoke ==
  /\ phase = "ready"
  /\ \E buf \in inp.bufs, po \in inp.pos, swap \in inp.swaps :
       /\ tb' = buf
       /\ stack' = <<NewFrame("main", swap, po)>>
  /\ phase' = "run"
  /\ UNCHANGED <<inp, pageIx, ts, trees, prog, result, visited, rd>>

Running(op) == phase = "run" /\ CurStmt(prog, stack).op = op

\* the machine after the current statement becomes the state
Becomes(mach) ==
  /\ stack' = mach.stack
  /\ phase' = mach.status
  /\ result' = mach.result
  /\ visited' = {v \in visited \cup {<<Len(stack), Top(stack).pc>>} :
                   v[1] <= Len(mach.stack)}
  /\ UNCHANGED <<inp, pageIx, ts, trees, prog, tb, rd>>

Read == Running("read") /\ Becomes(ExecRead(CurStmt(prog, stack), stack, tb))
IfNot ==
  Running("ifnot") /\ Becomes(ExecIfNot(CurStmt(prog, stack), stack, BodyOf(prog, stack)))
IntTest ==
  Running("inttest")
  /\ Becomes(ExecIntTest(CurStmt(prog, stack), stack, BodyOf(prog, stack)))
SetGf == Running("setgf") /\ Becomes(ExecSetGf(CurStmt(prog, stack), stack))
StringTestCall ==
  Running("gt") /\ Becomes(ExecStringTest(CurStmt(prog, stack), stack, tb))
SearchTestCall ==
  Running("ht") /\ Becomes(ExecSearchTest(CurStmt(prog, stack), stack, tb))
IfRA ==
  Running("ifrA") /\ Becomes(ExecIfRA(CurStmt(prog, stack), stack, BodyOf(prog, stack)))
Call == Running("call") /\ Becomes(ExecCall(CurStmt(prog, stack), stack))
Return == Running("ret") /\ Becomes(ExecReturn(stack))
AppendSs == Running("mss") /\ Becomes(ExecAppendSs(stack))
Describe == Running("m") /\ Becomes(ExecDescribe(CurStmt(prog, stack), stack))
SetMarker == Running("setd") /\ Becomes(ExecSetMarker(CurStmt(prog, stack), stack))
IfMarker ==
  Running("ifd")
  /\ Becomes(ExecIfMarker(CurStmt(prog, stack), stack, BodyOf(prog, stack)))
GotoFail ==
  Running("goto") /\ Becomes(ExecGoto(CurStmt(prog, stack), stack, BodyOf(prog, stack)))
PassLabel == Running("label") /\ Becomes(ExecLabel(stack))

Next ==
  \/ TreeifyStep
  \/ TreeifyReturn
  \/ EmitPage
  \/ Invoke
  \/ Read
  \/ IfNot
  \/ IntTest
  \/ SetGf
  \/ StringTestCall
  \/ SearchTestCall
  \/ IfRA
  \/ Call
  \/ Return
  \/ AppendSs
  \/ Describe
  \/ SetMarker
  \/ IfMarker
  \/ GotoFail
  \/ PassLabel

Spec == Init /\ [][Next]_vars

(***************************************************************************)
(* Vocabulary of the properties                                            *)
(***************************************************************************)
\* the outermost invocation: its frame, its entry point's body and tree
Outer == stack[1]
OuterBody == prog[<<Outer.page, Outer.swap>>]
OuterTree == trees[Outer.page]
Invoked == phase \in {"run", "done", "panic", "overflow"}

NodesOf(T) == 0..(T.idSeed - 1)
KidsOf(T, id) == T.children[id + 1]
KindOf(T, id) == T.rule[id + 1].Kind
FamilyOf(T, id) == T.rule[id + 1].Kind.Family

\* the outermost frame has executed statement i of its body
Ran(i) == <<1, i>> \in visited

\* the statements of node n with the given operation
StmtsOf(body, n, op) == {i \in 1..Len(body) : body[i].node = n /\ body[i].op = op}

\* node n was evaluated: one of its statements was executed
Evaluated(body, n) == \E i \in 1..Len(body) : body[i].node = n /\ Ran(i)
\* node n passed: its description was appended
Passed(body, n) == \E i \in StmtsOf(body, n, "m") : Ran(i)
\* the marker test of the Default node n was executed
MarkerTested(body, n) == \E i \in StmtsOf(body, n, "ifd") : Ran(i)

(***************************************************************************)
(* C1                                                                      *)
(***************************************************************************)
\* C1: in a group of siblings that share a default marker, a Default
\* sibling passes only if no earlier sibling of the group has passed; and
\* of three consecutive Default siblings, once the marker test of the first
\* is reached with no earlier sibling passed, exactly the first contributes
\* its label and the two later ones end at their failure labels.
C1_DefaultFirstWins ==
  Invoked =>
    \A p \in NodesOf(OuterTree) :
      LET ks == KidsOf(OuterTree, p)
          IsDefault(j) == FamilyOf(OuterTree, ks[j]) = "Default"
      IN \A j \in 1..Len(ks) :
           IsDefault(j) =>
             /\ Passed(OuterBody, ks[j]) =>
                  \A i \in 1..(j - 1) : ~Passed(OuterBody, ks[i])
             /\ ( /\ phase = "done"
                  /\ j + 2 <= Len(ks) /\ IsDefault(j + 1) /\ IsDefault(j + 2)
                  /\ MarkerTested(OuterBody, ks[j])
                  /\ \A i \in 1..(j - 1) : ~Passed(OuterBody, ks[i]) )
                => /\ Passed(OuterBody, ks[j])
                   /\ Evaluated(OuterBody, ks[j + 1]) /\ ~Passed(OuterBody, ks[j + 1])
                   /\ Evaluated(OuterBody, ks[j + 2]) /\ ~Passed(OuterBody, ks[j + 2])

\* three Default siblings were evaluated: the first passed, the others were
\* tested against the marker and did not
C1_Witness ==
  /\ phase = "done"
  /\ \E p \in NodesOf(OuterTree) :
       LET ks == KidsOf(OuterTree, p)
       IN /\ Len(ks) = 3
          /\ \A j \in 1..3 : FamilyOf(OuterTree, ks[j]) = "Default"
                             /\ MarkerTested(OuterBody, ks[j])
          /\ Passed(OuterBody, ks[1])
          /\ ~Passed(OuterBody, ks[2])
          /\ ~Passed(OuterBody, ks[3])

(***************************************************************************)
(* C2                                                                      *)
(***************************************************************************)
\* C2: after a Clear rule has executed inside a default group the group's
\* marker is false when control reaches the next sibling, so a Default
\* sibling that follows the Clear passes.
C2_ClearResetsMarker ==
  (phase = "run" /\ Len(stack) = 1) =>
    \A p \in NodesOf(OuterTree) :
      LET ks == KidsOf(OuterTree, p)
      IN \A j \in 1..(Len(ks) - 1) :
           ( /\ FamilyOf(OuterTree, ks[j]) = "Clear"
             /\ Outer.pc \in StmtsOf(OuterBody, ks[j + 1], "ifd") )
           => ~Outer.d[OuterBody[Outer.pc].d]


(***************************************************************************)
(* C3                                                                      *)
(***************************************************************************)
\* what the parent's kind adds to its address: the width of an Integer,
\* the returned position of a String, position plus pattern length of a
\* Search
KindAdvance(k, fr) ==
  CASE k.Family = "Integer" -> k.ByteWidth
    [] k.Family = "String" -> fr.rA
    [] k.Family = "Search" -> fr.rA + Len(k.Pattern)

\* C3: for every base offset po, when a rule at a direct offset has passed
\* and its relative direct-offset child is evaluated next, the address the
\* child tests is the parent's resolved address (po + its literal) plus the
\* parent's width (Integer), returned position (String) or position plus
\* pattern length (Search), plus the child's own literal offset.
C3_RelativeChildAddress ==
  (phase = "run" /\ Len(stack) = 1) =>
    LET st == OuterBody[Outer.pc]
        T == OuterTree
    IN \A p \in NodesOf(T) :
         LET prule == T.rule[p + 1]
             ks == KidsOf(T, p)
         IN ( /\ Len(ks) > 0
              /\ st.node = ks[1]
              /\ st.op = "read" /\ st.reg = "c"
              /\ T.rule[ks[1] + 1].Offset.OffsetType = "Direct"
              /\ T.rule[ks[1] + 1].Offset.IsRelative
              /\ prule.Offset.OffsetType = "Direct" /\ ~prule.Offset.IsRelative
              /\ prule.Kind.Family \in {"Integer", "String", "Search"} )
            => Eval(st.x, Outer).v
                 = (Outer.po + prule.Offset.Direct) + KindAdvance(prule.Kind, Outer)
                   + T.rule[ks[1] + 1].Offset.Direct

(***************************************************************************)
(* C4                                                                      *)
(***************************************************************************)
\* the entry points compiled without read reuse: every read is performed
FreshProg == [k \in DOMAIN prog |-> emitEntry(trees[k[1]], k[2], FALSE)]

\* C4: read reuse is behaviour-preserving: the matcher that skips the
\* pointer read and the value read after a node with an equal Offset ends
\* as the matcher that performs every read does, with the same labels.
C4_ReuseIsTransparent ==
  (phase \in {"done", "panic"} /\ Len(stack) = 1) =>
    LET fresh == Identify(FreshProg, Outer.page, Outer.swap, tb, Outer.po)
    IN fresh.status = phase /\ fresh.result = result

(***************************************************************************)
(* C6                                                                      *)
(***************************************************************************)
\* C6: for every buffer and base offset an invocation completes normally:
\* no step of address resolution or testing aborts it.
C6_NeverAborts == phase # "panic"


(***************************************************************************)
(* A read primitive on its own                                             *)
(***************************************************************************)
\* a buffer of n bytes: all zero, or 1, 2, 3, 1, 2, 3, ...
ZeroBuffer(n) == [i \in 1..n |-> 0]
RampBuffer(n) == [i \in 1..n |-> 1 + ((i - 1) % 3)]

\* the arguments of one call f<w><e>(tb, off).  An 8-byte value with a
\* non-zero high byte is beyond TLC's integers, so the 8-byte reads are
\* of zero buffers.
InitRead ==
  /\ inp = Input([page \in {"main"} |-> <<>>], {}, {}, {})
  /\ phase = "read"
  /\ pageIx = 1
  /\ ts = EmptyTree
  /\ trees = [pg \in {"main"} |-> EmptyTree]
  /\ prog = [k \in {"main"} \X BOOLEAN |-> <<>>]
  /\ tb = <<>>
  /\ stack = <<>>
  /\ result = <<>>
  /\ visited = {}
  /\ \E w \in {1, 2, 4, 8}, e \in {"l", "b"}, n \in 0..MaxBuf,
        off \in (0 - 3)..(MaxBuf + 1), ramp \in BOOLEAN :
       /\ ramp => w < 8
       /\ rd = [NoRead EXCEPT !.w = w, !.e = e, !.off = off,
                   !.tb = IF ramp THEN RampBuffer(n) ELSE ZeroBuffer(n)]

\* the call returns, or panics
DoRead ==
  /\ phase = "read"
  /\ ~rd.done
  /\ LET r == ReadFn(rd.w, rd.e, rd.tb, rd.off)
     IN rd' = [rd EXCEPT !.done = TRUE, !.v = r.v, !.ok = r.ok, !.panic = r.panic]
  /\ UNCHANGED <<inp, phase, pageIx, ts, trees, prog, tb, stack, result, visited>>

NextRead == DoRead

SpecRead == InitRead /\ [][NextRead]_vars

(***************************************************************************)
(* C5                                                                      *)
(***************************************************************************)
\* C5: for every width and byte order, on a buffer of length N and any
\* signed offset o, the read reports success if and only if o >= 0 and
\* o + W <= N, and otherwise reports failure (it does not abort).
C5_ReadBoundsChecked ==
  rd.done =>
    /\ ~rd.panic
    /\ rd.ok <=> (rd.off >= 0 /\ rd.off + rd.w <= Len(rd.tb))

(***************************************************************************)
(* treeify on its own                                                      *)
(***************************************************************************)
\* every level sequence of up to MaxRules rules, well formed or not
AllLevelSeqs ==
  UNION {[1..n -> 0..(MaxRules - 1)] : n \in 1..MaxRules}

\* the level-adjacency assumption of the rule lists
LevelsAdjacent(rules) ==
  /\ Len(rules) > 0 => rules[1].Level = 0
  /\ \A i \in 2..Len(rules) : rules[i].Level <= rules[i - 1].Level + 1

TreeifyInputs ==
  {Input([page \in {"main"} |->
            PageOf(lv, [i \in 1..Len(lv) |-> Body(At(0), NameKind, TRUE)],
                   [i \in 1..Len(lv) |-> "n"])],
         {}, {}, {}) : lv \in AllLevelSeqs}

InitTreeify == \E input \in TreeifyInputs : InitWith(input)

NextTreeify ==
  \/ TreeifyStep
  \/ TreeifyReturn

SpecTreeify == InitTreeify /\ [][NextTreeify]_vars

(***************************************************************************)
(* C10                                                                     *)
(***************************************************************************)
RECURSIVE PreOrder(_, _, _)
\* the pre-order traversal of the forest below the listed nodes, each node
\* with its depth
PreOrder(T, ids, depth) ==
  IF ids = <<>> THEN <<>>
  ELSE <<<<ids[1], depth>>>>
       \o PreOrder(T, KidsOf(T, ids[1]), depth + 1)
       \o PreOrder(T, Tail(ids), depth)

\* the node every child list holds id in (NilNode for a root)
ParentsOf(T, id) ==
  {p \in NodesOf(T) : \E i \in 1..Len(KidsOf(T, p)) : KidsOf(T, p)[i] = id}

\* C10: for a rule sequence that satisfies the level-adjacency assumption
\* treeify returns a forest whose pre-order traversal, with depths, is the
\* original sequence of (rule, Level): node ids are 0..n-1 in source order,
\* each rule is the last child of the most recent rule at Level-1 (the last
\* root at Level 0), and children are in source order.
C10_TreeifyRoundTrip ==
  (phase = "emit" /\ LevelsAdjacent(inp.book[CurPage])) =>
    LET rules == inp.book[CurPage]
        T == trees[CurPage]
    IN /\ T.rule = rules
       /\ PreOrder(T, T.rootNodes, 0)
            = [i \in 1..Len(rules) |-> <<i - 1, rules[i].Level>>]
       /\ \A i \in 1..Len(rules) :
            IF rules[i].Level = 0
            THEN ParentsOf(T, i - 1) = {}
                 /\ \E k \in 1..Len(T.rootNodes) : T.rootNodes[k] = i - 1
            ELSE \E j \in 1..(i - 1) :
                   /\ rules[j].Level = rules[i].Level - 1
                   /\ \A m \in (j + 1)..(i - 1) : rules[m].Level # rules[i].Level - 1
                   /\ ParentsOf(T, i - 1) = {j - 1}
       /\ \A p \in NodesOf(T) : \A a, b \in 1..Len(KidsOf(T, p)) :
            a < b => KidsOf(T, p)[a] < KidsOf(T, p)[b]

\* treeify returned a forest for a list that ascends and then descends
\* again: a rule was attached below a node that is not the previous rule
C10_Witness ==
  /\ phase = "emit"
  /\ LevelsAdjacent(inp.book[CurPage])
  /\ \E i \in 2..Len(inp.book[CurPage]) :
       /\ inp.book[CurPage][i].Level > 0
       /\ inp.book[CurPage][i].Level <= inp.book[CurPage][i - 1].Level
       /\ ParentsOf(trees[CurPage], i - 1) # {i - 2}

(***************************************************************************)
(* C7                                                                      *)
(***************************************************************************)
RECURSIVE SubtreeOf(_, _)
\* a node and its descendants
SubtreeOf(T, n) ==
  {n} \cup UNION {SubtreeOf(T, KidsOf(T, n)[i]) : i \in 1..Len(KidsOf(T, n))}

\* the statements of the block of node n: its own and its descendants'
BlockOf(body, T, n) ==
  LET sub == SubtreeOf(T, n)
  IN {i \in 1..Len(body) : body[i].node \in sub}

\* the statements that can jump to a failure label
JumpOps == {"ifnot", "inttest", "ifrA", "ifd", "goto"}

\* the step is a failure of the node at the top frame's current statement:
\* a conditional or unconditional goto that is taken
FailureStep ==
  /\ phase = "run" /\ phase' = "run"
  /\ Len(stack') = Len(stack)
  /\ CurStmt(prog, stack).op \in JumpOps
  /\ Top(stack').pc # Top(stack).pc + 1

\* C7: when a node's address resolution or test fails, control jumps to
\* that node's own failure label, which ends the node's block: no
\* descendant has been or is evaluated, no label is appended, evaluation
\* resumes after the block (at the next sibling when there is one), control
\* only moves forward, and every root-level rule that emits a statement has
\* been evaluated when the invocation ends, whether it returns or aborts.
C7_FailureSkipsOwnSubtree ==
  [][ /\ FailureStep =>
           LET body == BodyOf(prog, stack)
               T == trees[Top(stack).page]
               n == CurStmt(prog, stack).node
               to == Top(stack').pc
               block == BlockOf(body, T, n)
               sibs == IF ParentsOf(T, n) = {} THEN T.rootNodes
                       ELSE KidsOf(T, CHOOSE p \in ParentsOf(T, n) : TRUE)
           IN /\ body[to].op = "label" /\ body[to].node = n
              /\ to \in block /\ \A i \in block : i <= to
              /\ \A i \in block :
                   body[i].node # n => <<Len(stack), i>> \notin visited
              /\ Top(stack').out = Top(stack).out
              /\ \A i \in (to + 1)..Len(body) :
                   body[i].node \notin SubtreeOf(T, n)
              /\ \A k \in 1..(Len(sibs) - 1) :
                   (sibs[k] = n /\ BlockOf(body, T, sibs[k + 1]) # {})
                   => /\ to + 1 <= Len(body)
                      /\ body[to + 1].node = sibs[k + 1]
                      /\ \A i \in BlockOf(body, T, sibs[k + 1]) : i > to
      /\ (phase = "run" /\ phase' = "run" /\ Len(stack') = Len(stack))
           => Top(stack').pc > Top(stack).pc
      /\ (phase = "run" /\ phase' \in {"done", "panic"}) =>
           \A k \in 1..Len(OuterTree.rootNodes) :
             BlockOf(OuterBody, OuterTree, OuterTree.rootNodes[k]) # {}
               => \E i \in 1..Len(OuterBody) :
                    /\ OuterBody[i].node = OuterTree.rootNodes[k]
                    /\ <<1, i>> \in visited'
    ]_vars


(***************************************************************************)
(* C8                                                                      *)
(***************************************************************************)
\* the elements of a sequence
Range(seq) == {seq[i] : i \in 1..Len(seq)}

\* the top frame is about to append the labels a Use rule's call returned
AtAppendSs == phase = "run" /\ CurStmt(prog, stack).op = "mss"

\* the rule of the node whose statement the top frame is at
CurRule == trees[Top(stack).page].rule[CurStmt(prog, stack).node + 1]

\* C8 as stated: the labels returned by the target page's matcher are
\* appended after every label the calling page has contributed up to and
\* including the Use rule itself, so the Use rule's own description is
\* already in the output when the returned labels are appended.
C8_DelegatedAfterUseLabel ==
  (AtAppendSs /\ CurRule.Description # "")
    => CurRule.Description \in Range(Top(stack).out)

\* C8 amended: the labels returned by the target page's matcher are
\* appended, in the order returned, after every label the calling page has
\* contributed before the Use rule and immediately before the Use rule's
\* own description, which is the next label appended when there is one.
C8_DelegatedBeforeUseLabel ==
  [][ AtAppendSs =>
        LET fr == Top(stack)
            body == BodyOf(prog, stack)
            T == trees[fr.page]
            u == body[fr.pc].node
            call == body[fr.pc - 1]
            target == Identify(prog, call.page, call.swap, tb, Eval(call.x, fr).v)
        IN /\ call.op = "call" /\ call.node = u
           /\ fr.ss = target.result
           /\ \A k \in 1..Len(fr.out) :
                \E j \in NodesOf(T) : j < u /\ T.rule[j + 1].Description = fr.out[k]
           /\ phase' = "run" /\ Len(stack') = Len(stack)
           /\ Top(stack').out = fr.out \o fr.ss
           /\ CurRule.Description # "" =>
                /\ CurStmt(prog, stack').op = "m"
                /\ CurStmt(prog, stack').node = u
                /\ CurStmt(prog, stack').s = CurRule.Description
    ]_vars

\* a Use rule is about to append its own description after the labels of
\* the calling page's earlier rules and the labels its call returned
C8_Witness ==
  /\ phase = "run" /\ Len(stack) = 1
  /\ CurStmt(prog, stack).op = "m"
  /\ CurRule.Kind.Family = "Use"
  /\ Outer.ss # <<>>
  /\ Len(Outer.out) > Len(Outer.ss)
  /\ SubSeq(Outer.out, Len(Outer.out) - Len(Outer.ss) + 1, Len(Outer.out)) = Outer.ss

(***************************************************************************)
(* C9                                                                      *)
(***************************************************************************)
\* every rule of the page is of String or Search kind
OnlyPatterns(page) ==
  \A i \in 1..Len(page) : page[i].Kind.Family \in {"String", "Search"}

\* no rule of the page reads a pointer of more than one byte
OneBytePointers(page) ==
  \A i \in 1..Len(page) :
    page[i].Offset.OffsetType = "Indirect" => page[i].Offset.Indirect.ByteWidth = 1

\* the invocation has ended as the other entry point of the page ends on
\* the same buffer and base offset
SameAsOtherEntry ==
  LET other == Identify(prog, Outer.page, ~Outer.swap, tb, Outer.po)
  IN other.status = phase /\ other.result = result

\* C9 as stated: for a page all of whose rules are of String or Search
\* kind, at any offsets, the swapped and the native entry point return
\* identical label sequences on every buffer and base offset.
C9_SwappedEqualsNative ==
  (phase \in {"done", "panic"} /\ OnlyPatterns(inp.book[Outer.page]))
    => SameAsOtherEntry

\* C9 amended: for a page all of whose rules are of String or Search kind
\* at direct offsets or at indirect offsets whose pointer reads are one
\* byte wide, the swapped and the native entry point return identical
\* label sequences on every buffer and base offset.
C9_SwappedEqualsNativeOneByte ==
  (/\ phase \in {"done", "panic"}
   /\ OnlyPatterns(inp.book[Outer.page])
   /\ OneBytePointers(inp.book[Outer.page]))
    => SameAsOtherEntry

\* the swapped entry point of a page of byte-pattern rules, one of them at
\* an indirect offset, has returned a label
C9_Witness ==
  /\ phase = "done" /\ Outer.swap
  /\ OnlyPatterns(inp.book[Outer.page])
  /\ OneBytePointers(inp.book[Outer.page])
  /\ \E i \in 1..Len(inp.book[Outer.page]) :
       inp.book[Outer.page][i].Offset.OffsetType = "Indirect"
  /\ \E i \in StmtsOf(OuterBody, 0, "read") : Ran(i)
  /\ result # <<>>

(***************************************************************************)
(* C11                                                                     *)
(***************************************************************************)
\* the top frame is about to invoke the entry point and base offset that an
\* invocation on the call stack was entered with: the matcher is a function
\* of (entry point, tb, po), so the invocation repeats itself for ever
ReentersItself ==
  /\ phase = "run"
  /\ CurStmt(prog, stack).op = "call"
  /\ LET st == CurStmt(prog, stack)
         a == Eval(st.x, Top(stack))
     IN /\ ~a.panic
        /\ \E k \in 1..Len(stack) :
             /\ stack[k].page = st.page
             /\ stack[k].swap = st.swap
             /\ stack[k].po = a.v

\* C11: every invocation of a page matcher on a finite buffer terminates,
\* also when Use rules make a page invoke itself or form a cycle of pages:
\* no invocation re-enters an entry point at the base offset of an
\* invocation that is still running.
C11_Terminates == ~ReentersItself

(***************************************************************************)
(* An integer test on its own                                              *)
(***************************************************************************)
\* a non-wildcard Integer kind with a mask and an adjustment
MaskedIntegerKind(w, test, v, doAnd, andValue, adjType, adjValue) ==
  [IntegerKind(w, "l", test, v) EXCEPT !.DoAnd = doAnd, !.AndValue = andValue,
                                      !.AdjustmentType = adjType,
                                      !.AdjustmentValue = adjValue]

\* the read values of the model: around zero and around the sign bit of the
\* width
ReadValues(w) == {0, 1, 2, Pow256(w) \div 2 - 1, Pow256(w) \div 2, Pow256(w) - 1}

InitInteger ==
  /\ inp = Input([page \in {"main"} |-> <<>>], {}, {}, {})
  /\ phase = "inttest"
  /\ pageIx = 1
  /\ ts = EmptyTree
  /\ trees = [pg \in {"main"} |-> EmptyTree]
  /\ prog = [k \in {"main"} \X BOOLEAN |-> <<>>]
  /\ tb = <<>>
  /\ stack = <<>>
  /\ result = <<>>
  /\ visited = {}
  /\ \E w \in {1, 2}, test \in {"eq", "ne", "lt", "gt"}, v \in {0, 1, 15, 128},
        doAnd \in BOOLEAN, adjType \in {"none", "add", "sub", "mul", "div"} :
       \E rc \in ReadValues(w), andValue \in {15, Pow256(w) \div 2, Pow256(w) - 1},
          adjValue \in {1, 2} :
         \* the unsigned difference of the comparison does not wrap
         /\ adjType = "sub" => rc >= adjValue
         /\ rd = [ik |-> MaskedIntegerKind(w, test, v, doAnd, andValue,
                                           adjType, adjValue),
                  rc |-> rc, done |-> FALSE, pass |-> FALSE]

\* "if !(kc && (lhs op rhs)) { goto .. }" after a read that succeeded
DoIntTest ==
  /\ phase = "inttest"
  /\ ~rd.done
  /\ rd' = [rd EXCEPT !.done = TRUE, !.pass = IntegerRuleTest(rd.ik, rd.rc, TRUE)]
  /\ UNCHANGED <<inp, phase, pageIx, ts, trees, prog, tb, stack, result, visited>>

NextInteger == DoIntTest

SpecInteger == InitInteger /\ [][NextInteger]_vars

(***************************************************************************)
(* C12                                                                     *)
(***************************************************************************)
\* the compared value in the reference order: the mask, then the
\* adjustment, then the signed form of the rule's width for < and >
ReferenceLhs(ik, rc) ==
  LET masked == IF ik.DoAnd THEN BitAnd(rc, ik.AndValue) ELSE rc
      adjusted == IF ik.AdjustmentType \in {"add", "sub", "mul", "div"}
                  THEN Arith(ik.AdjustmentType, masked, ik.AdjustmentValue)
                  ELSE masked
  IN IF ik.IntegerTest \in {"lt", "gt"} THEN ToSigned(ik.ByteWidth, adjusted)
     ELSE adjusted

ReferenceTest(ik, rc) ==
  LET lhs == ReferenceLhs(ik, rc)
  IN CASE ik.IntegerTest = "eq" -> lhs = ik.Value
       [] ik.IntegerTest = "ne" -> lhs # ik.Value
       [] ik.IntegerTest = "lt" -> lhs < ik.Value
       [] ik.IntegerTest = "gt" -> lhs > ik.Value

\* C12: for every width, read value, mask and adjustment the emitted
\* comparison of a non-wildcard Integer rule has the outcome of the
\* reference order: bitmask AND, then the arithmetic adjustment, then
\* widening to the signed form of the rule's width when the operator is
\* < or >.
C12_MaskAdjustThenWiden ==
  rd.done => (rd.pass <=> ReferenceTest(rd.ik, rd.rc))

(***************************************************************************)
(* C13                                                                     *)
(***************************************************************************)
\* C13: when the second or a later relative child of a node is evaluated,
\* the global offset still equals the value its parent set (for an Integer
\* parent at a direct offset: its address plus its width), whatever the
\* earlier siblings and their subtrees did.
C13_GlobalOffsetKept ==
  (phase = "run" /\ Len(stack) = 1) =>
    LET st == OuterBody[Outer.pc]
        T == OuterTree
    IN \A p \in NodesOf(T) :
         LET prule == T.rule[p + 1]
             ks == KidsOf(T, p)
         IN \A i \in 2..Len(ks) :
              ( /\ st.node = ks[i]
                /\ st.op = "inttest"
                /\ T.rule[ks[i] + 1].Offset.OffsetType = "Direct"
                /\ T.rule[ks[i] + 1].Offset.IsRelative
                /\ prule.Offset.OffsetType = "Direct" /\ ~prule.Offset.IsRelative
                /\ prule.Kind.Family = "Integer" )
              => Outer.gf = Outer.po + prule.Offset.Direct + prule.Kind.ByteWidth

(***************************************************************************)
(* C14                                                                     *)
(***************************************************************************)
\* the outermost frame is at the marker finalize "d? = true" of a node
AtFinalize ==
  /\ phase = "run" /\ Len(stack) = 1
  /\ OuterBody[Outer.pc].op = "setd" /\ OuterBody[Outer.pc].val

\* C14: a node that is a child in a default group sets the group's marker
\* to true only after its own tests and all of its children have succeeded:
\* when the finalize is reached the node has passed and so has each of its
\* children; after a failure of the node or of a child the marker is left
\* as it was.
C14_MarkerOnlyAfterSuccess ==
  AtFinalize =>
    LET k == OuterBody[Outer.pc].node
        ks == KidsOf(OuterTree, k)
    IN /\ StmtsOf(OuterBody, k, "m") # {} => Passed(OuterBody, k)
       /\ \A i \in 1..Len(ks) :
            StmtsOf(OuterBody, ks[i], "m") # {} => Passed(OuterBody, ks[i])

(***************************************************************************)
(* C15                                                                     *)
(***************************************************************************)
\* the jumps of an entry point to the failure label of node n
JumpsTo(body, n) ==
  {i \in 1..Len(body) : body[i].op \in JumpOps /\ body[i].label = failLabel(n)}

\* the failure labels of one entry point are well placed
LabelsWellPlaced(body, T) ==
  /\ \A j \in 1..Len(body) :
       body[j].op \in JumpOps => body[j].label = failLabel(body[j].node)
  /\ \A n \in NodesOf(T) :
       LET labels == StmtsOf(body, n, "label")
           jumps == JumpsTo(body, n)
           block == BlockOf(body, T, n)
       IN /\ Cardinality(labels) = (IF jumps # {} THEN 1 ELSE 0)
          /\ \A i \in labels :
               /\ body[i].label = failLabel(n)
               /\ \A j \in block : j <= i
               /\ \A j \in jumps : j < i /\ body[j].node = n
          /\ \A m \in NodesOf(T) : m # n => failLabel(m) # failLabel(n)
          \* the block of n is one run of statements
          /\ \A i, j \in block : \A k \in i..j : k \in block

\* C15: in every emitted entry point a node's failure label is emitted
\* exactly once if and only if a jump to it was emitted, it is distinct from
\* every other node's label, and it is placed after the node's own tests
\* and its entire subtree, so every jump goes forward to the end of the
\* jumping node's own block.
C15_LabelsWellPlaced ==
  phase = "ready" =>
    \A k \in DOMAIN prog : LabelsWellPlaced(prog[k], trees[k[1]])

\* an entry point was emitted with a node that has a label and whose child
\* has one too, and with a node that has none
C15_Witness ==
  /\ phase = "ready"
  /\ \E k \in DOMAIN prog :
       LET body == prog[k]
           T == trees[k[1]]
       IN /\ \E n \in NodesOf(T) :
               /\ StmtsOf(body, n, "label") # {}
               /\ Len(KidsOf(T, n)) > 0
               /\ StmtsOf(body, KidsOf(T, n)[1], "label") # {}
          /\ \E n \in NodesOf(T) :
               BlockOf(body, T, n) # {} /\ StmtsOf(body, n, "label") = {}

(***************************************************************************)
(* C16                                                                     *)
(***************************************************************************)
\* rule i of the list skips a level: it is more than one level deeper than
\* the rule before it, or it is a first rule below level 0
SkipsLevel(rules, i) ==
  IF i = 1 THEN rules[1].Level > 0
  ELSE rules[i].Level > rules[i - 1].Level + 1

\* C16: treeify aborts on every rule whose Level is greater than the
\* previous rule's Level + 1 (and on a first rule whose Level is greater
\* than 0), also when a deeper level was seen earlier in the page: it goes
\* on only past rules that skip no level, and it aborts at the first rule
\* that does, never attaching it to a node of a closed subtree.
C16_LevelSkipAborts ==
  LET rules == inp.book[CurPage]
      n == ts.idSeed
  IN /\ phase \in {"treeify", "emit"} => \A i \in 1..n : ~SkipsLevel(rules, i)
     /\ phase = "abort" =>
          /\ n >= 1 /\ SkipsLevel(rules, n)
          /\ \A i \in 1..(n - 1) : ~SkipsLevel(rules, i)
          /\ ParentsOf(ts, n - 1) = {}
          /\ \A k \in 1..Len(ts.rootNodes) : ts.rootNodes[k] # n - 1

\* treeify aborted on a rule that skips a level although an earlier rule of
\* the page was as deep as the parent it asks for
C16_Witness ==
  /\ phase = "abort"
  /\ LET rules == inp.book[CurPage]
         n == ts.idSeed
     IN /\ n >= 3
        /\ SkipsLevel(rules, n)
        /\ \E j \in 1..(n - 1) : rules[j].Level >= rules[n].Level - 1

(***************************************************************************)
(* C17                                                                     *)
(***************************************************************************)
\* node n is a member of a default group: a child of its parent is a Default
InGroup(T, n) ==
  \E p \in ParentsOf(T, n) :
    \E i \in 1..Len(KidsOf(T, p)) : FamilyOf(T, KidsOf(T, p)[i]) = "Default"

RECURSIVE AncestorsOf(_, _)
\* the proper ancestors of node n
AncestorsOf(T, n) ==
  ParentsOf(T, n) \cup UNION {AncestorsOf(T, p) : p \in ParentsOf(T, n)}

\* node n has an enclosing default group: it, or a node above it, is a
\* member of one
Enclosed(T, n) == InGroup(T, n) \/ \E a \in AncestorsOf(T, n) : InGroup(T, a)

\* the Default and Clear nodes of a tree
MarkerRules(T) == {n \in NodesOf(T) : FamilyOf(T, n) \in {"Default", "Clear"}}

\* Compile has emitted the current page, or aborted in emitting it
PageEmitted == phase \in {"ready", "abort"} /\ ~ts.panic

\* C17 as stated: compilation aborts exactly when a Default or Clear rule
\* has no enclosing default group anywhere above it.
C17_AbortsOutsideAnyScope ==
  PageEmitted =>
    (phase = "abort"
       <=> \E n \in MarkerRules(trees[CurPage]) : ~Enclosed(trees[CurPage], n))

\* C17 amended: compilation aborts exactly when a Default or Clear rule is
\* not itself a member of a default group, that is, when it is a root or no
\* child of its parent is a Default; a Default rule at level >= 1 is always
\* a member of one.
C17_AbortsOutsideOwnGroup ==
  PageEmitted =>
    /\ phase = "abort"
         <=> \E n \in MarkerRules(trees[CurPage]) : ~InGroup(trees[CurPage], n)
    /\ \A n \in MarkerRules(trees[CurPage]) :
         (FamilyOf(trees[CurPage], n) = "Default"
          /\ trees[CurPage].rule[n + 1].Level >= 1) => InGroup(trees[CurPage], n)

\* compilation aborted on a page whose only rule outside a group of its own
\* is a Clear below a member of a default group
C17_Witness ==
  /\ phase = "abort" /\ ~ts.panic
  /\ \A n \in MarkerRules(trees[CurPage]) : Enclosed(trees[CurPage], n)
  /\ \E n \in MarkerRules(trees[CurPage]) :
       /\ FamilyOf(trees[CurPage], n) = "Clear"
       /\ ~InGroup(trees[CurPage], n)

(***************************************************************************)
(* Compile on deep pages                                                   *)
(***************************************************************************)
\* a chain of rules, one per level 0..depth: a Name root and below it
\* Default rules, or Name rules down to a last Default
DeepPage(depth, nested) ==
  PageOf([i \in 1..(depth + 1) |-> i - 1],
         [i \in 1..(depth + 1) |->
            IF i > 1 /\ (nested \/ i = depth + 1)
            THEN Body(At(0), DefaultKind, TRUE)
            ELSE Body(At(0), NameKind, TRUE)],
         [i \in 1..(depth + 1) |-> "n"])

DeepInputs ==
  {Input([page \in {"main"} |-> DeepPage(depth, nested)], {}, {}, {}) :
     depth \in 1..MaxLevel, nested \in BOOLEAN}

InitDeep == \E input \in DeepInputs : InitWith(input)

NextDeep ==
  \/ TreeifyStep
  \/ TreeifyReturn
  \/ EmitPage

SpecDeep == InitDeep /\ [][NextDeep]_vars

(***************************************************************************)
(* C18                                                                     *)
(***************************************************************************)
\* the marker variables that the statements of the children of node p use
\* for their group: the Default test and the marker finalize
GroupMarkers(body, T, p) ==
  {body[i].d : i \in {j \in 1..Len(body) :
                       /\ body[j].op = "ifd" \/ (body[j].op = "setd" /\ body[j].val)
                       /\ p \in ParentsOf(T, body[j].node)}}

\* C18: default groups nested along one root-to-leaf path use pairwise
\* distinct marker variables, each of them one of the sixteen the entry
\* point declares (d0..df).
C18_MarkersDistinctAndDeclared ==
  phase = "ready" =>
    \A k \in DOMAIN prog :
      LET body == prog[k]
          T == trees[k[1]]
      IN /\ \A i \in 1..Len(body) :
              body[i].op \in {"setd", "ifd"} => body[i].d \in DeclaredMarkers
         /\ \A p \in NodesOf(T) :
              /\ Cardinality(GroupMarkers(body, T, p)) <= 1
              /\ \A q \in SubtreeOf(T, p) \ {p} :
                   GroupMarkers(body, T, p) \cap GroupMarkers(body, T, q) = {}

(***************************************************************************)
(* C19                                                                     *)
(***************************************************************************)
\* the Use rule whose call entered frame j of the call stack: the caller
\* stays at its call statement until the callee returns
CallerStmt(j) ==
  prog[<<stack[j - 1].page, stack[j - 1].swap>>][stack[j - 1].pc]
CallerUse(j) == KindOf(trees[stack[j - 1].page], CallerStmt(j).node)

\* C19: a Use rule in the swapped entry point of a page invokes the
\* target's swapped variant when the rule's swap flag is unset and the
\* native variant when it is set, so the reads inside the target use the
\* opposite byte order from the one they use under the native entry point.
C19_SwappedUseFlips ==
  phase = "run" =>
    \A j \in 2..Len(stack) :
      stack[j - 1].swap => (stack[j].swap = ~CallerUse(j).SwapEndian)

=============================================================================
